---- MODULE Spec2Model ----
(***************************************************************************)
(* ComplianceValidator (src/src/python/ComplianceChecks.py): the rule      *)
(* registry loaded at construction, validate_compliance with its two       *)
(* checks, get_compliance_rules and generate_compliance_report.            *)
(*                                                                         *)
(* Python values are records [tag, v]; Python strings are sequences of     *)
(* one-character strings, so that strptime's parsing is computed and not   *)
(* assumed.  Instants are counted in ticks, TicksPerDay ticks to the day,  *)
(* day 1 being 0001-01-01 as in datetime.toordinal().                      *)
(***************************************************************************)
EXTENDS Integers, Sequences, FiniteSets, TLC

VARIABLES config, engine, rules, validation_timestamp, clock,
          pc, op, data, violations, now_read, outcome, result

vars == <<config, engine, rules, validation_timestamp, clock,
          pc, op, data, violations, now_read, outcome, result>>

-----------------------------------------------------------------------------
(* Bounds of the model *)

\* resolution of the clock: ticks in one day
TicksPerDay == 2

\* how far the clock runs past the start instant: one day's worth of ticks,
\* so that the clock passes through a day and reaches the next midnight
MaxTick == TicksPerDay

-----------------------------------------------------------------------------
(* Python values *)

PyNone == [tag |-> "none", v |-> <<>>]
PyStr(s) == [tag |-> "str", v |-> s]
PyInt(n) == [tag |-> "int", v |-> n]
PyDict(f) == [tag |-> "dict", v |-> f]
PyDatetime(t) == [tag |-> "datetime", v |-> t]
Unset == [tag |-> "unset", v |-> <<>>]

\* dict.get(key): the value, None when the key is absent
Get(d, key) == IF key \in DOMAIN d THEN d[key] ELSE PyNone

\* x != y on the values of the model (no user-defined __eq__)
PyNe(x, y) == x.tag # y.tag \/ x.v # y.v

\* datetime.isoformat(): the date part and the time part of the instant
isoformat(t) == [date |-> t \div TicksPerDay, time |-> t % TicksPerDay]

-----------------------------------------------------------------------------
(* datetime.strptime(s, "%Y-%m-%d") *)

Digits == {"0", "1", "2", "3", "4", "5", "6", "7", "8", "9"}
NonZero == Digits \ {"0"}
DigitSeq == <<"0", "1", "2", "3", "4", "5", "6", "7", "8", "9">>
DigitVal(ch) == (CHOOSE i \in 1..10 : DigitSeq[i] = ch) - 1

\* the character at position i, "" past the end
At(s, i) == IF i \in 1..Len(s) THEN s[i] ELSE ""

\* int() of a run of digits, a leading space skipped
RECURSIVE ToInt(_)
ToInt(s) ==
    IF s = <<>> THEN 0
    ELSE IF Head(s) = " " THEN ToInt(Tail(s))
    ELSE ToInt(SubSeq(s, 1, Len(s) - 1)) * 10 + DigitVal(s[Len(s)])

\* %m is 1[0-2]|0[1-9]|[1-9]: the lengths of the alternatives that match
\* at p, in the order the regex tries them
MonthAltLens(s, p) ==
    (IF At(s, p) = "1" /\ At(s, p + 1) \in {"0", "1", "2"} THEN <<2>> ELSE <<>>)
    \o (IF At(s, p) = "0" /\ At(s, p + 1) \in NonZero THEN <<2>> ELSE <<>>)
    \o (IF At(s, p) \in NonZero THEN <<1>> ELSE <<>>)

\* %d is 3[0-1]|[1-2]\d|0[1-9]|[1-9]| [1-9]
DayAltLens(s, p) ==
    (IF At(s, p) = "3" /\ At(s, p + 1) \in {"0", "1"} THEN <<2>> ELSE <<>>)
    \o (IF At(s, p) \in {"1", "2"} /\ At(s, p + 1) \in Digits THEN <<2>> ELSE <<>>)
    \o (IF At(s, p) = "0" /\ At(s, p + 1) \in NonZero THEN <<2>> ELSE <<>>)
    \o (IF At(s, p) \in NonZero THEN <<1>> ELSE <<>>)
    \o (IF At(s, p) = " " /\ At(s, p + 1) \in NonZero THEN <<2>> ELSE <<>>)

\* the month alternatives after which "-" and a day still match
ViableMonthLens(s) ==
    SelectSeq(MonthAltLens(s, 6),
              LAMBDA ml : At(s, 6 + ml) = "-" /\ DayAltLens(s, 7 + ml) # <<>>)

\* re.match of (\d\d\d\d)-(%m)-(%d) at the start of s: whether it matches,
\* the lengths of the month and day groups and the end of the match
RegexMatch(s) ==
    IF /\ \A i \in 1..4 : At(s, i) \in Digits
       /\ At(s, 5) = "-"
       /\ ViableMonthLens(s) # <<>>
    THEN LET ml == Head(ViableMonthLens(s))
             dl == Head(DayAltLens(s, 7 + ml))
         IN  [found |-> TRUE, ml |-> ml, dl |-> dl, end |-> 6 + ml + dl]
    ELSE [found |-> FALSE, ml |-> 0, dl |-> 0, end |-> 0]

\* the proleptic Gregorian calendar of datetime
IsLeap(y) == y % 4 = 0 /\ (y % 100 # 0 \/ y % 400 = 0)
DaysInMonth(y, m) ==
    IF m = 2 THEN (IF IsLeap(y) THEN 29 ELSE 28)
    ELSE IF m \in {4, 6, 9, 11} THEN 30 ELSE 31
DaysBeforeYear(y) ==
    (y - 1) * 365 + ((y - 1) \div 4) - ((y - 1) \div 100) + ((y - 1) \div 400)
RECURSIVE DaysBeforeMonth(_, _)
DaysBeforeMonth(y, m) ==
    IF m = 1 THEN 0 ELSE DaysBeforeMonth(y, m - 1) + DaysInMonth(y, m - 1)
ToOrdinal(y, m, d) == DaysBeforeYear(y) + DaysBeforeMonth(y, m) + d

\* strptime without the check that the match consumed the whole string
strptime_prefix(x) ==
    IF x.tag # "str" THEN [exc |-> "TypeError", t |-> 0]
    ELSE LET s == x.v
             rm == RegexMatch(s)
         IN  IF ~rm.found
             THEN [exc |-> "ValueError", t |-> 0]
             ELSE LET y == ToInt(SubSeq(s, 1, 4))
                      m == ToInt(SubSeq(s, 6, 5 + rm.ml))
                      d == ToInt(SubSeq(s, 7 + rm.ml, 6 + rm.ml + rm.dl))
                  IN  IF y < 1 \/ d > DaysInMonth(y, m)
                      THEN [exc |-> "ValueError", t |-> 0]
                      ELSE [exc |-> "", t |-> ToOrdinal(y, m, d) * TicksPerDay]

\* strptime: TypeError for a non-string, ValueError when the pattern does
\* not match, when data remains after the match, or when the fields name no
\* date (year 0, day past the end of the month); else midnight of the date
strptime(x) ==
    IF x.tag # "str" THEN [exc |-> "TypeError", t |-> 0]
    ELSE LET s == x.v
             rm == RegexMatch(s)
         IN  IF ~rm.found \/ rm.end # Len(s)
             THEN [exc |-> "ValueError", t |-> 0]
             ELSE LET y == ToInt(SubSeq(s, 1, 4))
                      m == ToInt(SubSeq(s, 6, 5 + rm.ml))
                      d == ToInt(SubSeq(s, 7 + rm.ml, 6 + rm.ml + rm.dl))
                  IN  IF y < 1 \/ d > DaysInMonth(y, m)
                      THEN [exc |-> "ValueError", t |-> 0]
                      ELSE [exc |-> "", t |-> ToOrdinal(y, m, d) * TicksPerDay]

\* timedelta.days of (a - b): whole days, rounded towards minus infinity
DeltaDays(a, b) == (a - b) \div TicksPerDay

-----------------------------------------------------------------------------
(* The configuration document and the rule registry *)

DefaultRules ==
    PyDict([id \in {"ECOSOC_RULE_1"} |->
              [name |-> "Active Status Check",
               description |-> "Fund must have active compliance status",
               severity |-> "HIGH"]])

\* yaml.safe_load of a readable document: None for an empty document, the
\* scalar for a scalar document, a dict for a mapping (possibly with no
\* entries, "{}"), YAMLError for a malformed one
safe_load(doc) ==
    CASE doc.kind = "malformed" -> [exc |-> "YAMLError", value |-> Unset]
      [] doc.kind = "empty" -> [exc |-> "", value |-> PyNone]
      [] doc.kind = "scalar" -> [exc |-> "", value |-> PyInt(42)]
      [] doc.kind = "mapping" ->
           [exc |-> "",
            value |-> PyDict([id \in doc.ids |->
                                [name |-> id, description |-> id,
                                 severity |-> "HIGH"]])]

\* open() of config/compliance_rules.yaml, then safe_load; only
\* FileNotFoundError is caught
load_compliance_rules(cfg) ==
    CASE cfg.file = "absent" -> [exc |-> "", value |-> DefaultRules]
      [] cfg.file = "unreadable" -> [exc |-> "PermissionError", value |-> Unset]
      [] cfg.file = "present" -> safe_load(cfg.doc)

\* len(x): TypeError for None and for an int
HasLen(x) == x.tag \in {"dict", "str"}
PyLen(x) == IF x.tag = "dict" THEN Cardinality(DOMAIN x.v) ELSE Len(x.v)

NoDoc == [kind |-> "none", ids |-> {}]
Doc(kind, ids) == [kind |-> kind, ids |-> ids]
Configs ==
    {[file |-> "absent", doc |-> NoDoc], [file |-> "unreadable", doc |-> NoDoc]}
    \cup {[file |-> "present", doc |-> Doc(k, {})] :
             k \in {"malformed", "empty", "scalar"}}
    \cup {[file |-> "present", doc |-> Doc("mapping", ids)] :
             ids \in {{}, {"ECOSOC_RULE_1"}, {"ECOSOC_RULE_1", "ECOSOC_RULE_2"},
                      {"CUSTOM_RULE"}}}

-----------------------------------------------------------------------------
(* validate_compliance and generate_compliance_report *)

ACTIVE == <<"A", "C", "T", "I", "V", "E">>

\* the window of the review check, in days
ReviewWindowDays == 365

StatusViolation ==
    [rule |-> "ECOSOC_RULE_1",
     description |-> "Fund is not in active compliance status"]
OverdueViolation ==
    [rule |-> "ECOSOC_RULE_2", description |-> "Annual review overdue"]
InvalidDateViolation ==
    [rule |-> "ECOSOC_RULE_2", description |-> "Invalid last review date"]

\* the status check with a missing key passed over
status_check_skip_missing(d) ==
    IF "compliance_status" \in DOMAIN d
       /\ PyNe(d["compliance_status"], PyStr(ACTIVE))
    THEN <<StatusViolation>> ELSE <<>>

\* lines 39-43: what the status check appends
status_check(d) ==
    IF PyNe(Get(d, "compliance_status"), PyStr(ACTIVE))
    THEN <<StatusViolation>> ELSE <<>>

\* the date check with the window one day short (>= for >)
date_check_early(d, now) ==
    LET last_review == strptime(Get(d, "last_review_date"))
    IN  IF last_review.exc \in {"ValueError", "TypeError"}
        THEN <<InvalidDateViolation>>
        ELSE IF DeltaDays(now, last_review.t) >= ReviewWindowDays
             THEN <<OverdueViolation>> ELSE <<>>

\* the date check with the window one day long (366 for 365)
date_check_late(d, now) ==
    LET last_review == strptime(Get(d, "last_review_date"))
    IN  IF last_review.exc \in {"ValueError", "TypeError"}
        THEN <<InvalidDateViolation>>
        ELSE IF DeltaDays(now, last_review.t) > ReviewWindowDays + 1
             THEN <<OverdueViolation>> ELSE <<>>

\* lines 46-57: what the date check appends, now being datetime.now()
date_check(d, now) ==
    LET last_review == strptime(Get(d, "last_review_date"))
    IN  IF last_review.exc \in {"ValueError", "TypeError"}
        THEN <<InvalidDateViolation>>
        ELSE IF DeltaDays(now, last_review.t) > ReviewWindowDays
             THEN <<OverdueViolation>> ELSE <<>>

\* the result with is_compliant decided by the status check alone
validation_result_status_only(d, viols, now) ==
    [is_compliant |-> status_check(d) = <<>>,
     violations |-> viols,
     fund_id |-> Get(d, "fund_id"),
     timestamp |-> isoformat(now)]

\* lines 59-64
validation_result(d, viols, now) ==
    [is_compliant |-> Len(viols) = 0,
     violations |-> viols,
     fund_id |-> Get(d, "fund_id"),
     timestamp |-> isoformat(now)]

\* compliance_score 0.95, as the fraction 95/100
ComplianceScore == <<95, 100>>

\* lines 70-76, for a registry that has a length
compliance_report(registry, stamp) ==
    [timestamp |-> isoformat(stamp.v),
     compliance_score |-> ComplianceScore,
     violations |-> <<>>,
     rules_checked |-> PyLen(registry),
     status |-> "COMPLIANT"]

-----------------------------------------------------------------------------
(* Inputs *)

Callers == {"c1", "c2"}

\* the clock starts at midnight of 2024-06-01
StartInstant == ToOrdinal(2024, 6, 1) * TicksPerDay

Ymd(y, m, d) == y \o <<"-">> \o m \o <<"-">> \o d

YearStrs == {<<"2", "0", "2", "3">>, <<"2", "0", "2", "4">>,
             <<"0", "0", "0", "0">>}
MonthStrs == {<<"0", "6">>, <<"6">>, <<"1", "3">>}
DayStrs == {<<"0", "1">>, <<"1">>, <<" ", "1">>, <<"0", "2">>, <<"3", "1">>}

OtherStrs ==
    { <<>>,
      <<"2", "0", "2", "0", "-", "0", "1", "-", "0", "1">>,
      <<"2", "0", "2", "4", "-", "0", "1", "-", "0", "1">>,
      <<"2", "0", "2", "5", "-", "0", "6", "-", "0", "1">>,
      <<"2", "0", "2", "5", "-", "0", "6", "-", "0", "2">>,
      <<"2", "0", "2", "4", "-", "0", "2", "-", "2", "9">>,
      <<"2", "0", "2", "3", "-", "0", "2", "-", "2", "9">>,
      <<"2", "0", "2", "3", "-", "1", "2", "-", "1">>,
      <<"2", "0", "2", "4", "-", "0", "6", "-", "0", "1", "x">>,
      <<"2", "0", "2", "4", "-", "0", "6", "-", "0", "1", " ">>,
      <<" ", "2", "0", "2", "4", "-", "0", "6", "-", "0", "1">>,
      <<"2", "0", "2", "4", "-", "0", "6", "-", "0", "0">>,
      <<"2", "0", "2", "4", "-", "0", "0", "-", "0", "1">>,
      <<"2", "0", "2", "4", "-", "0", "0", "6", "-", "0", "1">>,
      <<"2", "4", "-", "0", "6", "-", "0", "1">>,
      <<"2", "0", "2", "4", "/", "0", "6", "/", "0", "1">>,
      <<"2", "0", "2", "4", "0", "6", "0", "1">>,
      <<"0", "1", "-", "0", "6", "-", "2", "0", "2", "4">>,
      <<"y", "e", "s">> }

DateStrs == {Ymd(y, m, d) : y \in YearStrs, m \in MonthStrs, d \in DayStrs}
            \cup OtherStrs

\* a field of a record: no pair for a missing key, else the key and the value
Absent == [tag |-> "absent", v |-> <<>>]
Field(key, x) == IF x.tag = "absent" THEN <<>> ELSE <<<<key, x>>>>
MakeRecord(pairs) ==
    [k \in {pairs[i][1] : i \in 1..Len(pairs)} |->
        (CHOOSE p \in {pairs[i] : i \in 1..Len(pairs)} : p[1] = k)[2]]
Record(fund, status, date) ==
    MakeRecord(Field("fund_id", fund) \o Field("compliance_status", status)
               \o Field("last_review_date", date)
               \o <<<<"fund_name", PyStr(<<"n">>)>>>>)

FundValues == {Absent, PyStr(<<"T", "E", "S", "T", "0", "0", "1">>)}
StatusValues ==
    {Absent, PyNone, PyInt(1), PyStr(ACTIVE),
     PyStr(<<"a", "c", "t", "i", "v", "e">>),
     PyStr(<<"S", "U", "S", "P", "E", "N", "D", "E", "D">>)}
DateValues ==
    {Absent, PyNone, PyInt(20240101)} \cup {PyStr(s) : s \in DateStrs}

Records ==
    {Record(f, s, d) : f \in FundValues, s \in StatusValues, d \in DateValues}

\* the records of the interleaved specification: compliant, one violation of
\* each kind, and both checks failing
ConcRecords ==
    {Record(f, s, d) :
        f \in {PyStr(<<"X">>)},
        s \in {PyStr(ACTIVE), PyStr(<<"S", "U", "S", "P", "E", "N", "D", "E", "D">>)},
        d \in {PyStr(<<"2", "0", "2", "4", "-", "0", "1", "-", "0", "1">>),
               PyStr(<<"2", "0", "2", "3", "-", "0", "6", "-", "0", "2">>),
               PyNone}}

-----------------------------------------------------------------------------
(* The state machine *)

NoData == [k \in {"__none__"} |-> PyNone]
NoResult == [none |-> TRUE]

Init ==
    /\ config \in Configs
    /\ engine = "new"
    /\ rules = Unset
    /\ validation_timestamp = Unset
    /\ clock = StartInstant
    /\ pc = [c \in Callers |-> "idle"]
    /\ op = [c \in Callers |-> "none"]
    /\ data = [c \in Callers |-> NoData]
    /\ violations = [c \in Callers |-> <<>>]
    /\ now_read = [c \in Callers |-> 0]
    /\ outcome = [c \in Callers |-> "none"]
    /\ result = [c \in Callers |-> NoResult]

\* datetime.now() moves on between any two steps
Tick ==
    /\ clock < StartInstant + MaxTick
    /\ clock' = clock + 1
    /\ UNCHANGED <<config, engine, rules, validation_timestamp,
                   pc, op, data, violations, now_read, outcome, result>>

\* ComplianceValidator(): lines 5-7; an exception of the load leaves no engine
Construct ==
    /\ engine = "new"
    /\ LET loaded == load_compliance_rules(config)
       IN  IF loaded.exc # ""
           THEN /\ engine' = "failed"
                /\ UNCHANGED <<rules, validation_timestamp>>
           ELSE /\ engine' = "ready"
                /\ rules' = loaded.value
                /\ validation_timestamp' = PyDatetime(clock)
    /\ UNCHANGED <<config, clock, pc, op, data, violations, now_read,
                   outcome, result>>

\* get_compliance_rules(): line 30
get_compliance_rules(c) ==
    /\ engine = "ready"
    /\ pc[c] = "idle"
    /\ op' = [op EXCEPT ![c] = "get_compliance_rules"]
    /\ data' = [data EXCEPT ![c] = NoData]
    /\ violations' = [violations EXCEPT ![c] = <<>>]
    /\ now_read' = [now_read EXCEPT ![c] = 0]
    /\ outcome' = [outcome EXCEPT ![c] = "returned"]
    /\ result' = [result EXCEPT ![c] = rules]
    /\ pc' = [pc EXCEPT ![c] = "done"]
    /\ UNCHANGED <<config, engine, rules, validation_timestamp, clock>>

\* validate_compliance(d), lines 36-43: the call and the status check
validate_compliance_status(c, d) ==
    /\ engine = "ready"
    /\ pc[c] = "idle"
    /\ op' = [op EXCEPT ![c] = "validate_compliance"]
    /\ data' = [data EXCEPT ![c] = d]
    /\ violations' = [violations EXCEPT ![c] = status_check(d)]
    /\ now_read' = [now_read EXCEPT ![c] = 0]
    /\ outcome' = [outcome EXCEPT ![c] = "running"]
    /\ result' = [result EXCEPT ![c] = NoResult]
    /\ pc' = [pc EXCEPT ![c] = "L46"]
    /\ UNCHANGED <<config, engine, rules, validation_timestamp, clock>>

\* the date check putting its violation in front of the list
validate_compliance_date_prepend(c) ==
    /\ pc[c] = "L46"
    /\ now_read' = [now_read EXCEPT ![c] = clock]
    /\ violations' = [violations EXCEPT
                        ![c] = date_check(data[c], clock) \o violations[c]]
    /\ pc' = [pc EXCEPT ![c] = "L59"]
    /\ UNCHANGED <<config, engine, rules, validation_timestamp, clock,
                   op, data, outcome, result>>

\* validate_compliance, lines 46-57: the date check, reading the clock
validate_compliance_date(c) ==
    /\ pc[c] = "L46"
    /\ now_read' = [now_read EXCEPT ![c] = clock]
    /\ violations' = [violations EXCEPT
                        ![c] = violations[c] \o date_check(data[c], clock)]
    /\ pc' = [pc EXCEPT ![c] = "L59"]
    /\ UNCHANGED <<config, engine, rules, validation_timestamp, clock,
                   op, data, outcome, result>>

\* validate_compliance, lines 59-64: the result, reading the clock again
validate_compliance_return(c) ==
    /\ pc[c] = "L59"
    /\ result' = [result EXCEPT
                    ![c] = validation_result(data[c], violations[c], clock)]
    /\ outcome' = [outcome EXCEPT ![c] = "returned"]
    /\ pc' = [pc EXCEPT ![c] = "done"]
    /\ UNCHANGED <<config, engine, rules, validation_timestamp, clock,
                   op, data, violations, now_read>>

\* the report stamping the engine with the time of the report
generate_compliance_report_restamp(c) ==
    /\ engine = "ready"
    /\ pc[c] = "idle"
    /\ op' = [op EXCEPT ![c] = "generate_compliance_report"]
    /\ data' = [data EXCEPT ![c] = NoData]
    /\ violations' = [violations EXCEPT ![c] = <<>>]
    /\ now_read' = [now_read EXCEPT ![c] = 0]
    /\ validation_timestamp' = PyDatetime(clock)
    /\ IF HasLen(rules)
       THEN /\ outcome' = [outcome EXCEPT ![c] = "returned"]
            /\ result' = [result EXCEPT
                            ![c] = compliance_report(rules, PyDatetime(clock))]
       ELSE /\ outcome' = [outcome EXCEPT ![c] = "raised"]
            /\ result' = [result EXCEPT ![c] = [exc |-> "TypeError"]]
    /\ pc' = [pc EXCEPT ![c] = "done"]
    /\ UNCHANGED <<config, engine, rules, clock>>

\* generate_compliance_report(): lines 70-76; len(self.rules) raises
\* TypeError when the registry has no length
generate_compliance_report(c) ==
    /\ engine = "ready"
    /\ pc[c] = "idle"
    /\ op' = [op EXCEPT ![c] = "generate_compliance_report"]
    /\ data' = [data EXCEPT ![c] = NoData]
    /\ violations' = [violations EXCEPT ![c] = <<>>]
    /\ now_read' = [now_read EXCEPT ![c] = 0]
    /\ IF HasLen(rules)
       THEN /\ outcome' = [outcome EXCEPT ![c] = "returned"]
            /\ result' = [result EXCEPT
                            ![c] = compliance_report(rules, validation_timestamp)]
       ELSE /\ outcome' = [outcome EXCEPT ![c] = "raised"]
            /\ result' = [result EXCEPT ![c] = [exc |-> "TypeError"]]
    /\ pc' = [pc EXCEPT ![c] = "done"]
    /\ UNCHANGED <<config, engine, rules, validation_timestamp, clock>>

\* the caller takes the value (or the exception) of its call and is free to
\* call again
Return(c) ==
    /\ pc[c] = "done"
    /\ pc' = [pc EXCEPT ![c] = "idle"]
    /\ op' = [op EXCEPT ![c] = "none"]
    /\ data' = [data EXCEPT ![c] = NoData]
    /\ violations' = [violations EXCEPT ![c] = <<>>]
    /\ now_read' = [now_read EXCEPT ![c] = 0]
    /\ outcome' = [outcome EXCEPT ![c] = "none"]
    /\ result' = [result EXCEPT ![c] = NoResult]
    /\ UNCHANGED <<config, engine, rules, validation_timestamp, clock>>

\* one caller, every record
Next ==
    \/ Construct
    \/ Tick
    \/ get_compliance_rules("c1")
    \/ \E d \in Records : validate_compliance_status("c1", d)
    \/ validate_compliance_date("c1")
    \/ validate_compliance_return("c1")
    \/ generate_compliance_report("c1")
    \/ Return("c1")

Spec == Init /\ [][Next]_vars

\* several callers whose calls interleave
NextConc ==
    \/ Construct
    \/ Tick
    \/ \E c \in Callers : get_compliance_rules(c)
    \/ \E c \in Callers : \E d \in ConcRecords : validate_compliance_status(c, d)
    \/ \E c \in Callers : validate_compliance_date(c)
    \/ \E c \in Callers : validate_compliance_return(c)
    \/ \E c \in Callers : generate_compliance_report(c)
    \/ \E c \in Callers : Return(c)

SpecConc == Init /\ [][NextConc]_vars

TypeOK ==
    /\ engine \in {"new", "ready", "failed"}
    /\ \A c \in Callers : pc[c] \in {"idle", "L46", "L59", "done"}

-----------------------------------------------------------------------------
(* The properties *)

\* a call of operation o by caller c has ended and its caller holds the outcome
Ended(c, o) == pc[c] = "done" /\ op[c] = o
Validated(c) == Ended(c, "validate_compliance") /\ outcome[c] = "returned"

IsStr(x, s) == x.tag = "str" /\ x.v = s
Has(viols, v) == \E i \in 1..Len(viols) : viols[i] = v

\* the exact form YYYY-MM-DD: ten characters, digits around two hyphens
ExactForm(s) ==
    /\ Len(s) = 10
    /\ s[5] = "-" /\ s[8] = "-"
    /\ \A i \in {1, 2, 3, 4, 6, 7, 9, 10} : s[i] \in Digits
YearOf(s) == 1000 * DigitVal(s[1]) + 100 * DigitVal(s[2])
             + 10 * DigitVal(s[3]) + DigitVal(s[4])
MonthOf(s) == 10 * DigitVal(s[6]) + DigitVal(s[7])
DayOf(s) == 10 * DigitVal(s[9]) + DigitVal(s[10])

\* a well-formed YYYY-MM-DD date: the exact form, naming a day of the calendar
WellFormedDate(x) ==
    /\ x.tag = "str"
    /\ ExactForm(x.v)
    /\ YearOf(x.v) >= 1
    /\ MonthOf(x.v) \in 1..12
    /\ DayOf(x.v) \in 1..DaysInMonth(YearOf(x.v), MonthOf(x.v))

\* midnight of a well-formed date, in ticks
MidnightOf(x) == ToOrdinal(YearOf(x.v), MonthOf(x.v), DayOf(x.v)) * TicksPerDay

\* the texts strptime takes for a month and for a day
OneDigit == {<<a>> : a \in NonZero}
MonthTexts == OneDigit \cup {<<"0", a>> : a \in NonZero}
              \cup {<<"1", a>> : a \in {"0", "1", "2"}}
DayTexts == OneDigit \cup {<<"0", a>> : a \in NonZero}
            \cup {<<" ", a>> : a \in NonZero}
            \cup {<<a, b>> : a \in {"1", "2"}, b \in Digits}
            \cup {<<"3", a>> : a \in {"0", "1"}}

\* YYYY-M-D with the month and the day in one or two characters
LooseForm(s) ==
    \E ml \in {1, 2} : \E dl \in {1, 2} :
        /\ Len(s) = 6 + ml + dl
        /\ \A i \in 1..4 : s[i] \in Digits
        /\ s[5] = "-" /\ s[6 + ml] = "-"
        /\ SubSeq(s, 6, 5 + ml) \in MonthTexts
        /\ SubSeq(s, 7 + ml, 6 + ml + dl) \in DayTexts

LastReview(c) == Get(data[c], "last_review_date")

\* C1: a record with compliance_status exactly "ACTIVE" and a well-formed
\* last_review_date within 365 days of the instant of the check is found
\* compliant, with no violations.
C1_ActiveRecentCompliant ==
    \A c \in Callers :
        ( /\ Validated(c)
          /\ "compliance_status" \in DOMAIN data[c]
          /\ IsStr(data[c]["compliance_status"], ACTIVE)
          /\ WellFormedDate(LastReview(c))
          /\ now_read[c] - MidnightOf(LastReview(c)) <= ReviewWindowDays * TicksPerDay )
        => /\ result[c].is_compliant = TRUE
           /\ result[c].violations = <<>>

\* an ACTIVE record reviewed exactly 365 days before the check was found
\* compliant
C1_Witness ==
    \E c \in Callers :
        /\ Validated(c)
        /\ IsStr(Get(data[c], "compliance_status"), ACTIVE)
        /\ WellFormedDate(LastReview(c))
        /\ now_read[c] - MidnightOf(LastReview(c)) = ReviewWindowDays * TicksPerDay
        /\ result[c].is_compliant = TRUE

\* C2: get_compliance_rules() returns a non-empty registry whatever the
\* configuration document was at construction, and exactly the one entry
\* ECOSOC_RULE_1 when the document was absent.
C2_RegistryNonEmpty ==
    \A c \in Callers :
        Ended(c, "get_compliance_rules")
        => /\ outcome[c] = "returned"
           /\ result[c].tag = "dict"
           /\ DOMAIN result[c].v # {}
           /\ (config.file = "absent" => DOMAIN result[c].v = {"ECOSOC_RULE_1"})

\* C3: generate_compliance_report() returns status COMPLIANT, score 0.95, no
\* violations, rules_checked equal to the size of the registry and the
\* construction time as timestamp, after any sequence of calls.
C3_ReportFixed ==
    \A c \in Callers :
        Ended(c, "generate_compliance_report")
        => /\ outcome[c] = "returned"
           /\ result[c].status = "COMPLIANT"
           /\ result[c].compliance_score = <<95, 100>>
           /\ result[c].violations = <<>>
           /\ rules.tag = "dict"
           /\ result[c].rules_checked = Cardinality(DOMAIN rules.v)
           /\ result[c].timestamp = isoformat(validation_timestamp.v)

\* C4: a record whose compliance_status is missing or is anything but the
\* exact string "ACTIVE" gets the ECOSOC_RULE_1 violation "Fund is not in
\* active compliance status".
C4_StatusViolation ==
    \A c \in Callers :
        ( /\ Validated(c)
          /\ \/ "compliance_status" \notin DOMAIN data[c]
             \/ ~IsStr(data[c]["compliance_status"], ACTIVE) )
        => Has(result[c].violations,
               [rule |-> "ECOSOC_RULE_1",
                description |-> "Fund is not in active compliance status"])

\* a record without the key, and one with the status in lower case, were
\* reported
C4_Witness ==
    \E c \in Callers :
        /\ Validated(c)
        /\ \/ "compliance_status" \notin DOMAIN data[c]
           \/ IsStr(data[c]["compliance_status"], <<"a", "c", "t", "i", "v", "e">>)
        /\ Has(result[c].violations, StatusViolation)
        /\ Len(result[c].violations) = 1

\* C5 as stated: a well-formed last_review_date more than 365 days before
\* the instant of the check, by however little, gets the ECOSOC_RULE_2
\* violation "Annual review overdue".
C5_OverdueAnyExcess ==
    \A c \in Callers :
        ( /\ Validated(c)
          /\ WellFormedDate(LastReview(c))
          /\ now_read[c] - MidnightOf(LastReview(c)) > ReviewWindowDays * TicksPerDay )
        => Has(result[c].violations,
               [rule |-> "ECOSOC_RULE_2", description |-> "Annual review overdue"])

\* C5 amended: a well-formed last_review_date at least 366 whole days before
\* the instant of the check gets the ECOSOC_RULE_2 violation "Annual review
\* overdue".
C5_OverdueWholeDays ==
    \A c \in Callers :
        ( /\ Validated(c)
          /\ WellFormedDate(LastReview(c))
          /\ now_read[c] - MidnightOf(LastReview(c))
                >= (ReviewWindowDays + 1) * TicksPerDay )
        => Has(result[c].violations,
               [rule |-> "ECOSOC_RULE_2", description |-> "Annual review overdue"])

\* a review exactly 366 days before the check was reported overdue
C5_Witness ==
    \E c \in Callers :
        /\ Validated(c)
        /\ WellFormedDate(LastReview(c))
        /\ now_read[c] - MidnightOf(LastReview(c))
              = (ReviewWindowDays + 1) * TicksPerDay
        /\ Has(result[c].violations, OverdueViolation)

\* C6 as stated: a last_review_date that is missing, not a string, or a
\* string not in the exact form YYYY-MM-DD gets the ECOSOC_RULE_2 violation
\* "Invalid last review date" and never "Annual review overdue".
C6_InvalidUnlessExact ==
    \A c \in Callers :
        ( /\ Validated(c)
          /\ \/ "last_review_date" \notin DOMAIN data[c]
             \/ LastReview(c).tag # "str"
             \/ ~ExactForm(LastReview(c).v) )
        => /\ Has(result[c].violations,
                  [rule |-> "ECOSOC_RULE_2",
                   description |-> "Invalid last review date"])
           /\ ~Has(result[c].violations,
                   [rule |-> "ECOSOC_RULE_2",
                    description |-> "Annual review overdue"])

\* C6 amended: a last_review_date that is missing, not a string, or a string
\* not of the form YYYY-M-D (four-digit year, month 1-12 and day 1-31 in one
\* or two characters, the leading zero optional and a space allowed in its
\* place before the day) gets "Invalid last review date" and never "Annual
\* review overdue".
C6_InvalidUnlessLoose ==
    \A c \in Callers :
        ( /\ Validated(c)
          /\ \/ "last_review_date" \notin DOMAIN data[c]
             \/ LastReview(c).tag # "str"
             \/ ~LooseForm(LastReview(c).v) )
        => /\ Has(result[c].violations,
                  [rule |-> "ECOSOC_RULE_2",
                   description |-> "Invalid last review date"])
           /\ ~Has(result[c].violations,
                   [rule |-> "ECOSOC_RULE_2",
                    description |-> "Annual review overdue"])

\* a date followed by an extra character was reported invalid
C6_Witness ==
    \E c \in Callers :
        /\ Validated(c)
        /\ LastReview(c).tag = "str"
        /\ Len(LastReview(c).v) = 11
        /\ ExactForm(SubSeq(LastReview(c).v, 1, 10))
        /\ Has(result[c].violations, InvalidDateViolation)

\* C7: construction absorbs an unreadable configuration document, and after
\* construction every call of the three operations returns a value.
C7_NoOperationRaises ==
    /\ config.file \in {"absent", "unreadable"} => engine # "failed"
    /\ \A c \in Callers : pc[c] = "done" => outcome[c] = "returned"

\* the value a validation gives when run alone with the clock read as n1 by
\* the date check and as n2 by the result
ValidateAlone(d, n1, n2) ==
    [is_compliant |-> status_check(d) \o date_check(d, n1) = <<>>,
     violations |-> status_check(d) \o date_check(d, n1),
     fund_id |-> Get(d, "fund_id"),
     timestamp |-> isoformat(n2)]

AloneResults ==
    \A c \in Callers :
        /\ Validated(c)
           => \E n2 \in now_read[c]..clock :
                 result[c] = ValidateAlone(data[c], now_read[c], n2)
        /\ Ended(c, "generate_compliance_report")
           => IF HasLen(rules)
              THEN /\ outcome[c] = "returned"
                   /\ result[c] = compliance_report(rules, validation_timestamp)
              ELSE outcome[c] = "raised"

\* C8: no step of validate_compliance or generate_compliance_report, in any
\* interleaving of the callers, changes the registry or the construction
\* timestamp, and each call ends with the result it gives when run alone.
C8_FrameAndAlone ==
    /\ [][engine = "ready" => /\ rules' = rules
                              /\ validation_timestamp' = validation_timestamp]_vars
    /\ []AloneResults

\* two validations in flight at once, one ended with both violations while
\* the other is between its two checks, and the clock has moved
C8_Witness ==
    /\ Validated("c1")
    /\ Len(result["c1"].violations) = 2
    /\ pc["c2"] = "L46"
    /\ data["c2"] # data["c1"]
    /\ validation_timestamp.tag = "datetime"
    /\ clock > validation_timestamp.v

\* C9: is_compliant is true exactly when the violations are empty, and
\* fund_id is the record's fund_id, None when the key is absent.
C9_CompliantIffNoViolations ==
    \A c \in Callers :
        Validated(c)
        => /\ (result[c].is_compliant = TRUE) <=> (Len(result[c].violations) = 0)
           /\ result[c].fund_id =
                 IF "fund_id" \in DOMAIN data[c] THEN data[c]["fund_id"] ELSE PyNone

\* a record without fund_id failed the date check alone: not compliant,
\* fund_id None
C9_Witness ==
    \E c \in Callers :
        /\ Validated(c)
        /\ "fund_id" \notin DOMAIN data[c]
        /\ IsStr(Get(data[c], "compliance_status"), ACTIVE)
        /\ Len(result[c].violations) = 1
        /\ result[c].is_compliant = FALSE
        /\ result[c].fund_id = PyNone

\* C10: the violations are in the order of detection: at most two entries,
\* no rule id twice, and ECOSOC_RULE_1 before ECOSOC_RULE_2 when both checks
\* fail.
C10_DetectionOrder ==
    \A c \in Callers :
        Validated(c)
        => LET viols == result[c].violations
           IN  /\ Len(viols) <= 2
               /\ \A i, j \in 1..Len(viols) :
                     viols[i].rule = viols[j].rule => i = j
               /\ \A i, j \in 1..Len(viols) :
                     (viols[i].rule = "ECOSOC_RULE_1"
                      /\ viols[j].rule = "ECOSOC_RULE_2") => i < j

\* a record failed both checks, the second with an overdue review
C10_Witness ==
    \E c \in Callers :
        /\ Validated(c)
        /\ Len(result[c].violations) = 2
        /\ result[c].violations[2] = OverdueViolation

====
